---------------------------- MODULE Spec2Model ----------------------------
(***************************************************************************)
(* A model of rtabmap's StereoCameraModel (corelib/src/StereoCameraModel.cpp): *)
(* naming, load/save of the stereo calibration, scaling, the stereo        *)
(* transform and the depth/disparity conversions.                          *)
(*                                                                         *)
(* A cv::Mat is a sequence of rows, the empty cv::Mat is <<>>.  A file is   *)
(* a record; the file system is a function from the paths that exist to    *)
(* their contents.  The monocular CameraModel (load, save, scaled, fx, cx) *)
(* and baseline() are declared outside this source file; they are modelled *)
(* from their contract.  A failed UASSERT ends the call where it stands:   *)
(* the object keeps the fields assigned up to that point, and the call's   *)
(* result is "abort".                                                      *)
(***************************************************************************)
EXTENDS Integers, Sequences, FiniteSets, TLC

VARIABLES
    model,      \* the StereoCameraModel object: name_, left_, right_, R_, T_, E_, F_
    fs,         \* the file system: path -> file contents
    ret,        \* the last call: operation, arguments, result, sub-calls made
    aborted,    \* history: some load was ended by a failed UASSERT
    scales,     \* how many times scale() was called (bounded by MaxScales)
    rig,        \* depth/disparity: the intrinsics and baseline of a valid model
    disparity,  \* depth/disparity: the argument of computeDepth
    depth,      \* depth/disparity: the value computeDepth returned
    back,       \* depth/disparity: the value computeDisparity(depth) returned
    pc          \* depth/disparity: position of the round trip

vars == <<model, fs, ret, aborted, scales, rig, disparity, depth, back, pc>>
objVars == <<model, fs, ret, aborted, scales>>
mathVars == <<rig, disparity, depth, back, pc>>

---------------------------------------------------------------------------
(* Bounds *)

\* scale() may be called this many times (the focal length grows without bound)
MaxScales == 1

---------------------------------------------------------------------------
(* Matrices: cv::Mat and the {rows, cols, data} blocks of the pose file *)

EmptyMat == <<>>

IsEmpty(M) == Len(M) = 0

Rows(M) == Len(M)

Cols(M) == IF Len(M) = 0 THEN 0 ELSE Len(M[1])

\* the row-major buffer of a continuous matrix, (double*)M.data .. +rows*cols
RECURSIVE Flatten(_)
Flatten(M) == IF M = <<>> THEN <<>> ELSE Head(M) \o Flatten(Tail(M))

\* fs << "rows" << M.rows << "cols" << M.cols << "data" << vector(M.data, ...)
Block(M) == [rows |-> Rows(M), cols |-> Cols(M), data |-> Flatten(M)]

\* cv::Mat(rows, cols, CV_64FC1, data.data()).clone()
MatOfBlock(b) ==
    [i \in 1..b.rows |-> [j \in 1..b.cols |-> b.data[(i - 1) * b.cols + j]]]

\* UASSERT(rows*cols == (int)data.size()); UASSERT(rows == r && cols == c);
BlockOk(b, rows, cols) ==
    /\ b.rows * b.cols = Len(b.data)
    /\ b.rows = rows /\ b.cols = cols

---------------------------------------------------------------------------
(* Names and paths *)

\* the names callers pass to setName and load
CameraNames == {"", "cam"}

Directories == {"/d"}

\* (int) of a cv::FileNode: the integer of an integer node, 0 of a missing
\* node, INT_MAX of any other node (a string)
NodeInt(n) ==
    IF n.t = "none" THEN 0
    ELSE IF n.t = "int" THEN n.v
    ELSE 2147483647

\* the one-character std::string that name_ = <int> assigns: the int is
\* narrowed to char
CharString(i) ==
    LET c == i % 256
    IN  IF c = 65 THEN "A"
        ELSE IF c = 255 THEN "\\377"
        ELSE IF c = 0 THEN "\\0"
        ELSE "\\?"

StrNode(s) == [t |-> "str", v |-> 0, s |-> s]

IntNode(i) == [t |-> "int", v |-> i, s |-> ""]

PosePath(directory, n) == directory \o "/" \o n \o "_pose.yaml"

MonoPath(directory, n) == directory \o "/" \o n \o ".yaml"

\* UFile::exists
Exists(fsys, path) == path \in DOMAIN fsys

WriteFile(fsys, path, content) ==
    [p \in DOMAIN fsys \cup {path} |-> IF p = path THEN content ELSE fsys[p]]

---------------------------------------------------------------------------
(* The monocular camera model (external collaborator) *)

NoIntrinsics == [fx |-> 0, cx |-> 0]

EmptyCamera == [name |-> "", in |-> NoIntrinsics]

MonoValid(c) == c.in.fx > 0

MonoSetName(c, n) == [c EXCEPT !.name = n]

\* CameraModel::load(directory, cameraName): reads {directory}/{cameraName}.yaml
MonoLoad(c, fsys, directory, n) ==
    IF Exists(fsys, MonoPath(directory, n))
    THEN [cam |-> [name |-> n, in |-> fsys[MonoPath(directory, n)].in], ok |-> TRUE]
    ELSE [cam |-> c, ok |-> FALSE]

\* CameraModel::save(directory): needs a name and a calibration
MonoSaveOk(c) == c.name # "" /\ MonoValid(c)

MonoFile(c) == [kind |-> "mono", in |-> c.in]

\* CameraModel::scaled(scale)
MonoScaled(c, k) == [c EXCEPT !.in = [fx |-> c.in.fx * k, cx |-> c.in.cx * k]]

---------------------------------------------------------------------------
(* StereoCameraModel: setName, load *)

EmptyModel ==
    [name_ |-> "", left_ |-> EmptyCamera, right_ |-> EmptyCamera,
     R_ |-> EmptyMat, T_ |-> EmptyMat, E_ |-> EmptyMat, F_ |-> EmptyMat]

SetNameOutcome(st, n) ==
    [st EXCEPT !.name_ = n,
               !.left_ = MonoSetName(st.left_, n \o "_left"),
               !.right_ = MonoSetName(st.right_, n \o "_right")]

\* mutant: & for &&, the right load is attempted whatever the left one returned
MonoLoadsBoth(st, fsys, directory, cameraName) ==
    LET l == MonoLoad(st.left_, fsys, directory, cameraName \o "_left")
        r == MonoLoad(st.right_, fsys, directory, cameraName \o "_right")
    IN  [st |-> [st EXCEPT !.left_ = l.cam, !.right_ = r.cam],
         ok |-> l.ok /\ r.ok,
         calls |-> <<"left.load", "right.load">>]

\* left_.load(directory, cameraName+"_left") && right_.load(directory, cameraName+"_right")
MonoLoads(st, fsys, directory, cameraName) ==
    LET l == MonoLoad(st.left_, fsys, directory, cameraName \o "_left")
        r == MonoLoad(st.right_, fsys, directory, cameraName \o "_right")
    IN  IF l.ok
        THEN [st |-> [st EXCEPT !.left_ = l.cam, !.right_ = r.cam],
              ok |-> r.ok,
              calls |-> <<"left.load", "right.load">>]
        ELSE [st |-> [st EXCEPT !.left_ = l.cam],
              ok |-> FALSE,
              calls |-> <<"left.load">>]

\* mutant: only R_ is reset
ResetRotationOnly(st) == [st EXCEPT !.R_ = EmptyMat]

\* R_ = cv::Mat(); T_ = cv::Mat();
ResetExtrinsics(st) == [st EXCEPT !.R_ = EmptyMat, !.T_ = EmptyMat]

\* mutant: the matrices are reset before ignoreStereoTransform is tested
LoadIgnoredReset(st) ==
    [st EXCEPT !.R_ = EmptyMat, !.T_ = EmptyMat, !.E_ = EmptyMat, !.F_ = EmptyMat]

\* if(ignoreStereoTransform) return true;   nothing is assigned
LoadIgnored(st) == st

\* mutant: a missing pose file is accepted
MissingPoseAccepted == "true"

\* the else branch: UWARN(...); return false;
MissingPoseResult == "false"

\* the body of if(UFile::exists(filePath)): the fields are assigned in order,
\* a failed UASSERT leaves the ones already assigned
ReadPose(st, pf) ==
    LET s0 == [st EXCEPT !.name_ = CharString(NodeInt(pf.camera_name))]
        s1 == [s0 EXCEPT !.R_ = MatOfBlock(pf.rotation_matrix)]
        s2 == [s1 EXCEPT !.T_ = MatOfBlock(pf.translation_matrix)]
        s3 == [s2 EXCEPT !.E_ = MatOfBlock(pf.essential_matrix)]
        s4 == [s3 EXCEPT !.F_ = MatOfBlock(pf.fundamental_matrix)]
    IN  IF ~BlockOk(pf.rotation_matrix, 3, 3) THEN [st |-> s0, result |-> "abort"]
        ELSE IF ~BlockOk(pf.translation_matrix, 3, 1) THEN [st |-> s1, result |-> "abort"]
        ELSE IF ~BlockOk(pf.essential_matrix, 3, 3) THEN [st |-> s2, result |-> "abort"]
        ELSE IF ~BlockOk(pf.fundamental_matrix, 3, 3) THEN [st |-> s3, result |-> "abort"]
        ELSE [st |-> s4, result |-> "true"]

LoadOutcome(st, fsys, directory, cameraName, ignoreStereoTransform) ==
    LET ml == MonoLoads([st EXCEPT !.name_ = cameraName], fsys, directory, cameraName)
        filePath == PosePath(directory, cameraName)
        reset == ResetExtrinsics(ml.st)
        rp == ReadPose(reset, fsys[filePath])
    IN  IF ~ml.ok
        THEN [st |-> ml.st, result |-> "false", calls |-> ml.calls]
        ELSE IF ignoreStereoTransform
        THEN [st |-> LoadIgnored(ml.st), result |-> "true", calls |-> ml.calls]
        ELSE IF Exists(fsys, filePath)
        THEN [st |-> rp.st, result |-> rp.result,
              calls |-> ml.calls \o <<"exists", "read">>]
        ELSE [st |-> reset, result |-> MissingPoseResult,
              calls |-> ml.calls \o <<"exists">>]

---------------------------------------------------------------------------
(* StereoCameraModel: save, scale, stereoTransform *)

\* mutant: the test of T_ is forgotten
PoseWritableNoT(st, filePath) ==
    filePath # "" /\ st.name_ # "" /\ ~IsEmpty(st.R_)

\* if(!filePath.empty() && !name_.empty() && !R_.empty() && !T_.empty())
PoseWritable(st, filePath) ==
    filePath # "" /\ st.name_ # "" /\ ~IsEmpty(st.R_) /\ ~IsEmpty(st.T_)

\* the ROS calibration format written through cv::FileStorage
PoseFile(st) ==
    [kind |-> "pose",
     camera_name |-> StrNode(st.name_),
     rotation_matrix |-> Block(st.R_),
     translation_matrix |-> Block(st.T_),
     essential_matrix |-> Block(st.E_),
     fundamental_matrix |-> Block(st.F_)]

SaveOutcome(st, fsys, directory, ignoreStereoTransform) ==
    LET lok == MonoSaveOk(st.left_)
        fs1 == IF lok
               THEN WriteFile(fsys, MonoPath(directory, st.left_.name), MonoFile(st.left_))
               ELSE fsys
        rok == lok /\ MonoSaveOk(st.right_)
        fs2 == IF rok
               THEN WriteFile(fs1, MonoPath(directory, st.right_.name), MonoFile(st.right_))
               ELSE fs1
        calls == IF lok THEN <<"left.save", "right.save">> ELSE <<"left.save">>
        filePath == PosePath(directory, st.name_)
    IN  IF ~rok
        THEN [fs |-> fs2, result |-> "false", calls |-> calls]
        ELSE IF ignoreStereoTransform
        THEN [fs |-> fs2, result |-> "true", calls |-> calls]
        ELSE IF PoseWritable(st, filePath)
        THEN [fs |-> WriteFile(fs2, filePath, PoseFile(st)), result |-> "true",
              calls |-> calls \o <<"write">>]
        ELSE [fs |-> fs2, result |-> "false", calls |-> calls]

\* mutant: the translation is rescaled with the intrinsics
ScaleOutcomeWithT(st, k) ==
    [st EXCEPT !.left_ = MonoScaled(st.left_, k),
               !.right_ = MonoScaled(st.right_, k),
               !.T_ = [i \in 1..Len(st.T_) |->
                          [j \in 1..Len(st.T_[i]) |-> st.T_[i][j] * k]]]

\* left_ = left_.scaled(scale); right_ = right_.scaled(scale);
ScaleOutcome(st, k) ==
    [st EXCEPT !.left_ = MonoScaled(st.left_, k),
               !.right_ = MonoScaled(st.right_, k)]

NullTransform == [null |-> TRUE, failed |-> FALSE, rows |-> <<>>]

\* M.at<double>(i, j), zero-based; outside the matrix the read is undefined
InMat(M, i, j) == i < Rows(M) /\ j < Cols(M)

\* M.at<double>(i), zero-based: element i of the row-major buffer
InBuffer(M, i) == i < Len(Flatten(M))

\* mutant: R_ is read column by column
StereoTransformTransposed(st) ==
    IF ~IsEmpty(st.R_) /\ ~IsEmpty(st.T_)
    THEN IF (\A i \in 0..2 : \A j \in 0..2 : InMat(st.R_, i, j))
            /\ (\A i \in 0..2 : InBuffer(st.T_, i))
         THEN [null |-> FALSE, failed |-> FALSE,
               rows |-> [i \in 1..3 |->
                   <<st.R_[1][i], st.R_[2][i], st.R_[3][i], Flatten(st.T_)[i]>>]]
         ELSE [null |-> FALSE, failed |-> TRUE, rows |-> <<>>]
    ELSE NullTransform

StereoTransform(st) ==
    IF ~IsEmpty(st.R_) /\ ~IsEmpty(st.T_)
    THEN IF (\A i \in 0..2 : \A j \in 0..2 : InMat(st.R_, i, j))
            /\ (\A i \in 0..2 : InBuffer(st.T_, i))
         THEN [null |-> FALSE, failed |-> FALSE,
               rows |-> [i \in 1..3 |->
                   <<st.R_[i][1], st.R_[i][2], st.R_[i][3], Flatten(st.T_)[i]>>]]
         ELSE [null |-> FALSE, failed |-> TRUE, rows |-> <<>>]
    ELSE NullTransform

---------------------------------------------------------------------------
(* Floating point, for computeDepth and computeDisparity.                   *)
(* A finite value is m * 2^e with m odd (or m = 0, e = 0); the other kinds  *)
(* are the infinities (m = 1 or -1), NaN, and "inexact": an operation whose *)
(* result needs rounding of the significand, which this model does not      *)
(* compute (the inputs are chosen so that it does not arise).  Range is     *)
(* modelled exactly: a value returned as float overflows to infinity above  *)
(* 2^FloatMaxExp and is rounded to a multiple of 2^FloatMinExp below it.    *)

\* float: 24 significant bits, largest binade 2^127, smallest subnormal 2^-149
FloatBits == 24
FloatMaxExp == 127
FloatMinExp == -149

Abs(i) == IF i < 0 THEN -i ELSE i

Sgn(i) == IF i < 0 THEN -1 ELSE 1

RECURSIVE Pow2(_)
Pow2(n) == IF n <= 0 THEN 1 ELSE 2 * Pow2(n - 1)

RECURSIVE BitLen(_)
BitLen(n) == IF n <= 0 THEN 0 ELSE 1 + BitLen(n \div 2)

Zero == [k |-> "fin", m |-> 0, e |-> 0]
Inf(s) == [k |-> "inf", m |-> s, e |-> 0]
NaN == [k |-> "nan", m |-> 0, e |-> 0]
Inexact == [k |-> "inexact", m |-> 0, e |-> 0]

RECURSIVE Fin(_, _)
Fin(m, e) ==
    IF m = 0 THEN Zero
    ELSE IF m % 2 = 0 THEN Fin(m \div 2, e + 1)
    ELSE [k |-> "fin", m |-> m, e |-> e]

IsZero(x) == x.k = "fin" /\ x.m = 0

FNeg(x) == IF x.k \in {"fin", "inf"} THEN [x EXCEPT !.m = -x.m] ELSE x

FMul(x, y) ==
    IF x.k = "inexact" \/ y.k = "inexact" THEN Inexact
    ELSE IF x.k = "nan" \/ y.k = "nan" THEN NaN
    ELSE IF x.k = "inf" \/ y.k = "inf"
    THEN IF IsZero(x) \/ IsZero(y) THEN NaN ELSE Inf(Sgn(x.m) * Sgn(y.m))
    ELSE IF BitLen(Abs(x.m)) + BitLen(Abs(y.m)) > FloatBits + 1 THEN Inexact
    ELSE IF BitLen(Abs(x.m * y.m)) > FloatBits THEN Inexact
    ELSE Fin(x.m * y.m, x.e + y.e)

FAdd(x, y) ==
    IF x.k = "inexact" \/ y.k = "inexact" THEN Inexact
    ELSE IF x.k = "nan" \/ y.k = "nan" THEN NaN
    ELSE IF x.k = "inf" /\ y.k = "inf" THEN (IF x.m = y.m THEN x ELSE NaN)
    ELSE IF x.k = "inf" THEN x
    ELSE IF y.k = "inf" THEN y
    ELSE IF IsZero(x) THEN y
    ELSE IF IsZero(y) THEN x
    ELSE LET lo == IF x.e < y.e THEN x.e ELSE y.e
         IN  IF \/ BitLen(Abs(x.m)) + (x.e - lo) > FloatBits + 1
                \/ BitLen(Abs(y.m)) + (y.e - lo) > FloatBits + 1
             THEN Inexact
             ELSE LET sum == Fin(x.m * Pow2(x.e - lo) + y.m * Pow2(y.e - lo), lo)
                  IN  IF BitLen(Abs(sum.m)) > FloatBits THEN Inexact ELSE sum

FSub(x, y) == FAdd(x, FNeg(y))

\* x / y: division by zero gives an infinity (NaN for 0/0), division by an
\* infinity gives zero
FDiv(x, y) ==
    IF x.k = "inexact" \/ y.k = "inexact" THEN Inexact
    ELSE IF x.k = "nan" \/ y.k = "nan" THEN NaN
    ELSE IF y.k = "inf" THEN (IF x.k = "inf" THEN NaN ELSE Zero)
    ELSE IF IsZero(y) THEN (IF IsZero(x) THEN NaN ELSE Inf(Sgn(x.m)))
    ELSE IF x.k = "inf" THEN Inf(Sgn(x.m) * Sgn(y.m))
    ELSE IF Abs(x.m) % Abs(y.m) # 0 THEN Inexact
    ELSE Fin(Sgn(x.m) * Sgn(y.m) * (Abs(x.m) \div Abs(y.m)), x.e - y.e)

\* the conversion of a result to float: overflow to infinity, round to
\* nearest even on the subnormal grid (underflow to zero)
ToFloat(x) ==
    IF x.k # "fin" \/ x.m = 0 THEN x
    ELSE IF BitLen(Abs(x.m)) > FloatBits THEN Inexact
    ELSE IF x.e + BitLen(Abs(x.m)) - 1 > FloatMaxExp THEN Inf(Sgn(x.m))
    ELSE IF x.e >= FloatMinExp THEN x
    ELSE LET shift == FloatMinExp - x.e
         IN  IF shift > BitLen(Abs(x.m)) THEN Zero
             ELSE LET q == Abs(x.m) \div Pow2(shift)
                      r == Abs(x.m) % Pow2(shift)
                      half == Pow2(shift - 1)
                      up == r > half \/ (r = half /\ q % 2 = 1)
                  IN  Fin(Sgn(x.m) * (IF up THEN q + 1 ELSE q), FloatMinExp)

\* isValid(): both monocular models are valid
RigValid(g) == g.fx.k = "fin" /\ g.fx.m > 0

\* mutant: the principal points are subtracted the wrong way round
ComputeDepthSwapped(g, d) ==
    IF IsZero(d) THEN Zero
    ELSE ToFloat(FDiv(FMul(g.b, g.fx), FSub(FAdd(d, g.cxl), g.cxr)))

\* if(disparity == 0.0f) return 0.0f;
\* return baseline() * left().fx() / (disparity + right().cx() - left().cx());
ComputeDepth(g, d) ==
    IF IsZero(d) THEN Zero
    ELSE ToFloat(FDiv(FMul(g.b, g.fx), FSub(FAdd(d, g.cxr), g.cxl)))

\* if(depth == 0.0f) return 0.0f;
\* return baseline() * left().fx() / depth - right().cx() + left().cx();
ComputeDisparity(g, z) ==
    IF IsZero(z) THEN Zero
    ELSE ToFloat(FAdd(FSub(FDiv(FMul(g.b, g.fx), z), g.cxr), g.cxl))

---------------------------------------------------------------------------
(* The object's operations as actions, and the files the environment provides *)

RotationA == <<<<0, -1, 0>>, <<1, 0, 0>>, <<0, 0, 1>>>>
TranslationA == <<<<-12>>, <<1>>, <<2>>>>
EssentialA == <<<<0, -2, 1>>, <<2, 0, 12>>, <<-1, -12, 0>>>>
FundamentalA == <<<<1, 2, 3>>, <<4, 5, 6>>, <<7, 8, 9>>>>
RotationB == <<<<1, 0, 0>>, <<0, 1, 0>>, <<0, 0, 1>>>>
TranslationB == <<<<-7>>, <<0>>, <<0>>>>

ExternalPose(node, Rb, Tb, Eb, Fb) ==
    [kind |-> "pose", camera_name |-> node,
     rotation_matrix |-> Rb, translation_matrix |-> Tb,
     essential_matrix |-> Eb, fundamental_matrix |-> Fb]

\* the pose files found on disk: well-formed ones (camera_name a string, as
\* save writes it, or an integer) and malformed ones (a block missing, of the
\* wrong shape, or with the wrong number of values)
ExternalPoseFiles ==
    { ExternalPose(StrNode("cam"), Block(RotationA), Block(TranslationA),
                   Block(EssentialA), Block(FundamentalA)),
      ExternalPose(StrNode("cam"), [rows |-> 2, cols |-> 2, data |-> <<1, 0, 0, 1>>],
                   Block(TranslationA), Block(EssentialA), Block(FundamentalA)),
      ExternalPose(IntNode(65), Block(RotationB), Block(EmptyMat),
                   Block(EssentialA), Block(FundamentalA)),
      ExternalPose(StrNode("cam"), Block(RotationA), Block(TranslationA),
                   Block(EmptyMat), [rows |-> 3, cols |-> 3, data |-> <<1, 2>>]) }

LeftIntrinsics == [fx |-> 500, cx |-> 320]
RightIntrinsics == [fx |-> 510, cx |-> 322]

ScaleFactors == {2, 3}

\* the monocular calibration files of camera "cam" present at the start
InitialFiles(hasLeft, hasRight) ==
    [p \in (IF hasLeft THEN {MonoPath("/d", "cam_left")} ELSE {})
            \cup (IF hasRight THEN {MonoPath("/d", "cam_right")} ELSE {}) |->
        IF p = MonoPath("/d", "cam_left")
        THEN [kind |-> "mono", in |-> LeftIntrinsics]
        ELSE [kind |-> "mono", in |-> RightIntrinsics]]

Call(op, directory, cameraName, ignore, k, result, calls, out) ==
    [op |-> op, directory |-> directory, cameraName |-> cameraName,
     ignore |-> ignore, k |-> k, result |-> result, calls |-> calls, out |-> out]

NoRig == [b |-> Zero, fx |-> Zero, cxl |-> Zero, cxr |-> Zero]

InitObject ==
    /\ model = EmptyModel
    /\ \E hasLeft \in BOOLEAN, hasRight \in BOOLEAN : fs = InitialFiles(hasLeft, hasRight)
    /\ ret = Call("construct", "", "", FALSE, 0, "", <<>>, NullTransform)
    /\ aborted = FALSE
    /\ scales = 0

Init ==
    /\ InitObject
    /\ rig = NoRig
    /\ disparity = NoRig.b
    /\ depth = NoRig.b
    /\ back = NoRig.b
    /\ pc = "idle"

SetName(n) ==
    /\ model' = SetNameOutcome(model, n)
    /\ ret' = Call("setName", "", n, FALSE, 0, "", <<>>, NullTransform)
    /\ UNCHANGED <<fs, aborted, scales>>
    /\ UNCHANGED mathVars

Load(directory, cameraName, ignoreStereoTransform) ==
    LET o == LoadOutcome(model, fs, directory, cameraName, ignoreStereoTransform)
    IN  /\ model' = o.st
        /\ ret' = Call("load", directory, cameraName, ignoreStereoTransform, 0,
                       o.result, o.calls, NullTransform)
        /\ aborted' = (aborted \/ o.result = "abort")
        /\ UNCHANGED <<fs, scales>>
        /\ UNCHANGED mathVars

Save(directory, ignoreStereoTransform) ==
    LET o == SaveOutcome(model, fs, directory, ignoreStereoTransform)
    IN  /\ fs' = o.fs
        /\ ret' = Call("save", directory, "", ignoreStereoTransform, 0,
                       o.result, o.calls, NullTransform)
        /\ UNCHANGED <<model, aborted, scales>>
        /\ UNCHANGED mathVars

Scale(k) ==
    /\ scales < MaxScales
    /\ scales' = scales + 1
    /\ model' = ScaleOutcome(model, k)
    /\ ret' = Call("scale", "", "", FALSE, k, "", <<>>, NullTransform)
    /\ UNCHANGED <<fs, aborted>>
    /\ UNCHANGED mathVars

GetStereoTransform ==
    /\ ret' = Call("stereoTransform", "", "", FALSE, 0, "", <<>>, StereoTransform(model))
    /\ UNCHANGED <<model, fs, aborted, scales>>
    /\ UNCHANGED mathVars

\* the environment writes or replaces the pose file of camera "cam"
PlacePoseFile(directory, pf) ==
    /\ fs' = WriteFile(fs, PosePath(directory, "cam"), pf)
    /\ ret' = Call("environment", directory, "cam", FALSE, 0, "", <<>>, NullTransform)
    /\ UNCHANGED <<model, aborted, scales>>
    /\ UNCHANGED mathVars

\* the environment removes the pose file of camera "cam"
RemovePoseFile(directory) ==
    /\ PosePath(directory, "cam") \in DOMAIN fs
    /\ fs' = [p \in DOMAIN fs \ {PosePath(directory, "cam")} |-> fs[p]]
    /\ ret' = Call("environment", directory, "cam", FALSE, 0, "", <<>>, NullTransform)
    /\ UNCHANGED <<model, aborted, scales>>
    /\ UNCHANGED mathVars

Next ==
    \/ \E n \in CameraNames : SetName(n)
    \/ \E d \in Directories, n \in CameraNames \cup {model.name_}, ig \in BOOLEAN :
          Load(d, n, ig)
    \/ \E d \in Directories, ig \in BOOLEAN : Save(d, ig)
    \/ \E k \in ScaleFactors : Scale(k)
    \/ GetStereoTransform
    \/ \E d \in Directories, pf \in ExternalPoseFiles : PlacePoseFile(d, pf)
    \/ \E d \in Directories : RemovePoseFile(d)

Spec == Init /\ [][Next]_vars

---------------------------------------------------------------------------
(* The depth/disparity round trip on a model whose intrinsics and baseline  *)
(* are drawn from small sets                                                *)

\* 0.125 m, and the smallest positive float
Baselines == {Fin(1, -3), Fin(1, FloatMinExp)}

\* 512, 384, and the focal length 0 of a model that is not valid
FocalLengths == {Fin(1, 9), Fin(3, 7), Zero}

\* 0, 320, 322
PrincipalPoints == {Zero, Fin(5, 6), Fin(161, 1)}

\* 0, 2, -2, 4, 6, 1024, 2^-140
Disparities ==
    {Zero, Fin(1, 1), Fin(-1, 1), Fin(1, 2), Fin(3, 1), Fin(1, 10), Fin(1, -140)}

\* d + cx_right - cx_left, the divisor of computeDepth
Divisor(g, d) == FSub(FAdd(d, g.cxr), g.cxl)

\* the arithmetic of the round trip needs no rounding of a significand
ExactRoundTrip(g, d) ==
    /\ ComputeDepth(g, d).k \notin {"inexact", "nan"}
    /\ ComputeDisparity(g, ComputeDepth(g, d)).k \notin {"inexact", "nan"}

InitMath ==
    /\ model = EmptyModel
    /\ fs = InitialFiles(TRUE, TRUE)
    /\ ret = Call("construct", "", "", FALSE, 0, "", <<>>, NullTransform)
    /\ aborted = FALSE
    /\ scales = 0
    /\ rig \in [b : Baselines, fx : FocalLengths, cxl : PrincipalPoints, cxr : PrincipalPoints]
    /\ disparity \in Disparities
    /\ RigValid(rig) => ExactRoundTrip(rig, disparity)
    /\ depth = Zero
    /\ back = Zero
    /\ pc = "start"

\* UASSERT(this->isValid()) fails
DepthOfInvalidModel ==
    /\ pc = "start"
    /\ ~RigValid(rig)
    /\ pc' = "aborted"
    /\ UNCHANGED <<rig, disparity, depth, back>>
    /\ UNCHANGED objVars

ComputeDepthCall ==
    /\ pc = "start"
    /\ RigValid(rig)
    /\ depth' = ComputeDepth(rig, disparity)
    /\ pc' = "depth"
    /\ UNCHANGED <<rig, disparity, back>>
    /\ UNCHANGED objVars

ComputeDisparityCall ==
    /\ pc = "depth"
    /\ RigValid(rig)
    /\ back' = ComputeDisparity(rig, depth)
    /\ pc' = "done"
    /\ UNCHANGED <<rig, disparity, depth>>
    /\ UNCHANGED objVars

NextMath ==
    \/ DepthOfInvalidModel
    \/ ComputeDepthCall
    \/ ComputeDisparityCall

SpecMath == InitMath /\ [][NextMath]_vars

---------------------------------------------------------------------------
(* Properties *)

PoseFilesOf(fsys) == {<<p, fsys[p]>> : p \in {q \in DOMAIN fsys : fsys[q].kind = "pose"}}

ExtrinsicsOf(st) == <<st.R_, st.T_, st.E_, st.F_>>

BothMonoFiles(fsys, directory, n) ==
    /\ Exists(fsys, MonoPath(directory, n \o "_left"))
    /\ Exists(fsys, MonoPath(directory, n \o "_right"))

\* save(directory, false) was called, both monocular saves succeeded, and one
\* of name_, R_, T_ is empty
SaveWithoutExtrinsics ==
    /\ ret.op = "save" /\ ~ret.ignore
    /\ MonoSaveOk(model.left_) /\ MonoSaveOk(model.right_)
    /\ (model.name_ = "" \/ IsEmpty(model.R_) \/ IsEmpty(model.T_))

\* C1 as stated: when both monocular saves succeed and one of name, R, T is
\* empty, save(directory, false) returns true.
C1_SkippedSaveReturnsTrue == SaveWithoutExtrinsics => ret.result = "true"

\* C1 amended: when both monocular saves succeed and one of name, R, T is
\* empty, save(directory, false) writes no pose file and returns false.
C1_SkippedSaveReturnsFalse ==
    [][(/\ ret'.op = "save" /\ ~ret'.ignore
        /\ MonoSaveOk(model.left_) /\ MonoSaveOk(model.right_)
        /\ (model.name_ = "" \/ IsEmpty(model.R_) \/ IsEmpty(model.T_)))
       => (ret'.result = "false" /\ PoseFilesOf(fs') = PoseFilesOf(fs))]_vars

C1_Witness == SaveWithoutExtrinsics /\ ret.result = "false" /\ ~IsEmpty(model.R_)

\* C2: load(directory, cameraName, false) returns false whenever
\* {directory}/{cameraName}_pose.yaml does not exist, whatever the monocular
\* loads returned and whatever the model held before.
C2_LoadWithoutPoseFileFails ==
    (/\ ret.op = "load" /\ ~ret.ignore
     /\ ~Exists(fs, PosePath(ret.directory, ret.cameraName)))
    => ret.result = "false"

C2_Witness ==
    /\ ret.op = "load" /\ ~ret.ignore
    /\ ~Exists(fs, PosePath(ret.directory, ret.cameraName))
    /\ ret.calls = <<"left.load", "right.load", "exists">>
    /\ ret.result = "false"
    /\ ~IsEmpty(model.E_)

\* C3 as stated: load(directory, cameraName, true) with both monocular loads
\* succeeding returns true and leaves R, T, E and F all empty.
C3_IgnoringLoadLeavesEmpty ==
    [][(/\ ret'.op = "load" /\ ret'.ignore
        /\ BothMonoFiles(fs, ret'.directory, ret'.cameraName))
       => (/\ ret'.result = "true"
           /\ IsEmpty(model'.R_) /\ IsEmpty(model'.T_)
           /\ IsEmpty(model'.E_) /\ IsEmpty(model'.F_))]_vars

\* C3 amended: load(directory, cameraName, true) with both monocular loads
\* succeeding returns true whether or not the pose file exists, and R, T, E
\* and F keep the values they had before the call.
C3_IgnoringLoadKeepsExtrinsics ==
    [][(/\ ret'.op = "load" /\ ret'.ignore
        /\ BothMonoFiles(fs, ret'.directory, ret'.cameraName))
       => (/\ ret'.result = "true"
           /\ ExtrinsicsOf(model') = ExtrinsicsOf(model))]_vars

C3_Witness ==
    /\ ret.op = "load" /\ ret.ignore /\ ret.result = "true"
    /\ ~Exists(fs, PosePath(ret.directory, ret.cameraName))
    /\ ~IsEmpty(model.R_) /\ ~IsEmpty(model.F_)

\* C4: a load(directory, name, false) that follows a save(directory, false)
\* which returned true returns true and yields the saved R, T, E, F and
\* left/right intrinsics.
C4_SaveLoadRoundTrip ==
    [][(/\ ret.op = "save" /\ ~ret.ignore /\ ret.result = "true"
        /\ ret'.op = "load" /\ ~ret'.ignore
        /\ ret'.directory = ret.directory
        /\ ret'.cameraName = model.name_)
       => (/\ ret'.result = "true"
           /\ ExtrinsicsOf(model') = ExtrinsicsOf(model)
           /\ model'.left_.in = model.left_.in
           /\ model'.right_.in = model.right_.in)]_vars

\* C5 as stated: R and T are both empty or both non-empty in every reachable
\* state.
C5_RotationAndTranslationTogether == IsEmpty(model.R_) <=> IsEmpty(model.T_)

\* C5 amended: in every reachable state a non-empty T comes with a non-empty
\* R, and R is non-empty with T empty only after a load was aborted by a
\* failed assertion.
C5_TranslationImpliesRotation ==
    /\ ~IsEmpty(model.T_) => ~IsEmpty(model.R_)
    /\ (~IsEmpty(model.R_) /\ IsEmpty(model.T_)) => aborted

C5_Witness ==
    /\ ret.op = "load" /\ ret.result = "abort"
    /\ ~IsEmpty(model.R_) /\ IsEmpty(model.T_)

\* C6: scale(k) replaces left and right by their copies rescaled by k and
\* leaves R, T, E, F and the name unchanged.
C6_ScaleKeepsExtrinsics ==
    [][ret'.op = "scale"
       => (/\ model'.left_ = MonoScaled(model.left_, ret'.k)
           /\ model'.right_ = MonoScaled(model.right_, ret'.k)
           /\ ExtrinsicsOf(model') = ExtrinsicsOf(model)
           /\ model'.name_ = model.name_)]_vars

C6_Witness ==
    /\ ret.op = "scale" /\ ret.k = 3
    /\ MonoValid(model.left_) /\ ~IsEmpty(model.T_)

\* C7: stereoTransform() never fails; with R or T empty it returns the
\* default transform, otherwise the transform whose row i is
\* (R[i][0], R[i][1], R[i][2], T[i]); it changes no field of the model.
C7_StereoTransformRows ==
    [][ret'.op = "stereoTransform"
       => (/\ model' = model
           /\ ~ret'.out.failed
           /\ IF IsEmpty(model.R_) \/ IsEmpty(model.T_)
              THEN ret'.out = NullTransform
              ELSE /\ ~ret'.out.null
                   /\ \A i \in 1..3 :
                        ret'.out.rows[i] = <<model.R_[i][1], model.R_[i][2],
                                             model.R_[i][3], model.T_[i][1]>>)]_vars

C7_Witness ==
    /\ ret.op = "stereoTransform" /\ ~ret.out.null
    /\ model.R_ = RotationA

C9_FailedMonoLoadStopsLoad ==
    [][(/\ ret'.op = "load"
        /\ ~BothMonoFiles(fs, ret'.directory, ret'.cameraName))
       => (/\ ret'.result = "false"
           /\ ExtrinsicsOf(model') = ExtrinsicsOf(model)
           /\ ret'.calls \in {<<"left.load">>, <<"left.load", "right.load">>}
           /\ ~Exists(fs, MonoPath(ret'.directory, ret'.cameraName \o "_left"))
                => (ret'.calls = <<"left.load">> /\ model'.right_ = model.right_))]_vars

C9_Witness ==
    /\ ret.op = "load" /\ ret.result = "false" /\ ret.calls = <<"left.load">>
    /\ ~ret.ignore
    /\ ~IsEmpty(model.R_) /\ ~IsEmpty(model.F_)

\* C10: after setName or a successful load the sub-models are named
\* name_left and name_right for the model's current name.
C10_ChildrenNamedAfterModel ==
    (ret.op = "setName" \/ (ret.op = "load" /\ ret.result = "true"))
    => (/\ model.left_.name = model.name_ \o "_left"
        /\ model.right_.name = model.name_ \o "_right")

=============================================================================
